---------------------------- MODULE Spec2Model ----------------------------
(***************************************************************************)
(* Family Outings: the backend store (spots, favorites, search) of         *)
(* backend/app/store.py over the tables of backend/app/models.py, and the  *)
(* batch ingestion pipeline of batch/fetch_spots.py.                       *)
(*                                                                         *)
(* Conventions.                                                            *)
(*  - A Python str is a sequence of characters (one-character strings), so *)
(*    that lower(), upper(), strip(), "in" and sorted() are computed.      *)
(*    A non-ASCII glyph of the seed data is one character whose name is    *)
(*    its reading with a prefix (h_ hiragana, t_ katakana, k_ kanji).      *)
(*  - An Optional value is a set with at most one element: {} is None.     *)
(*  - A float coordinate is an integer number of 1e-4 degrees; a distance  *)
(*    is an integer number of metres.                                      *)
(***************************************************************************)
EXTENDS Integers, Sequences, FiniteSets, Bags, TLC

VARIABLES
    spots,      \* table "spots": spot id -> row
    favorites,  \* table "favorites": bag of <<user_id, spot_id>> rows
    last,       \* the last completed backend request and what it returned
    reqs,       \* in-flight concurrent add_favorite requests
    run,        \* the ingestion run (batch/fetch_spots.py run)
    snapshot,   \* the snapshot artifact written by write_output
    norm,       \* one call of normalize_record: its input and outcome
    session     \* one session_scope: where it is, what it called, how it left

vars == <<spots, favorites, last, reqs, run, snapshot, norm, session>>

----------------------------------------------------------------------------
(* Bounds                                                                  *)

\* how many of ExtraRecords the ingestion may have put in storage
NumExtraSpots == 1
\* longest batch handed to upsert_to_db by one Upsert step of the backend specs
MaxBatch == 1
\* add_favorite requests in flight at once
NumRequests == 2
NumSources == 2
MaxRecs == 1
MaxLimit == 2
MaxOffset == 3

----------------------------------------------------------------------------
(* Python str operations                                                   *)

None == {}
Some(x) == {x}

SeqToSet(s) == {s[i] : i \in 1..Len(s)}

UpperLetters ==
    << "A","B","C","D","E","F","G","H","I","J","K","L","M",
       "N","O","P","Q","R","S","T","U","V","W","X","Y","Z" >>
LowerLetters ==
    << "a","b","c","d","e","f","g","h","i","j","k","l","m",
       "n","o","p","q","r","s","t","u","v","w","x","y","z" >>

\* the function that takes from[i] to to[i]
RECURSIVE CharMap(_, _)
CharMap(from, to) ==
    IF from = <<>> THEN <<>>
    ELSE (Head(from) :> Head(to)) @@ CharMap(Tail(from), Tail(to))

\* str.lower() and str.upper() move only the ASCII letters of the model's text
LowerOf == CharMap(UpperLetters, LowerLetters)
UpperOf == CharMap(LowerLetters, UpperLetters)
UpperSet == SeqToSet(UpperLetters)
LowerSet == SeqToSet(LowerLetters)

lower_char(c) == IF c \in UpperSet THEN LowerOf[c] ELSE c

upper_char(c) == IF c \in LowerSet THEN UpperOf[c] ELSE c

str_lower(s) == [i \in 1..Len(s) |-> lower_char(s[i])]
str_upper(s) == [i \in 1..Len(s) |-> upper_char(s[i])]

IsSpace(c) == c \in {" ", "\t", "\n", "\r"}

SetMin(S) == CHOOSE x \in S : \A y \in S : x <= y
SetMax(S) == CHOOSE x \in S : \A y \in S : y <= x

str_strip(s) ==
    LET keep == {i \in 1..Len(s) : ~IsSpace(s[i])}
    IN  IF keep = {} THEN <<>> ELSE SubSeq(s, SetMin(keep), SetMax(keep))

\* Python's "needle in hay" on str
str_contains(needle, hay) ==
    LET n == needle
        h == hay
    IN  \E i \in 0..(Len(h) - Len(n)) :
            \A j \in 1..Len(n) : h[i + j] = n[j]

\* code point order of the characters the model uses (for sorted())
CharOrder ==
    << "\t", "\n", "\r", " ", ",", "-", ".", ":",
       "0","1","2","3","4","5","6","7","8","9" >>
    \o UpperLetters \o LowerLetters

ord(c) ==
    IF \E i \in 1..Len(CharOrder) : CharOrder[i] = c
    THEN CHOOSE i \in 1..Len(CharOrder) : CharOrder[i] = c
    ELSE Len(CharOrder) + 1

\* Python's a < b on str: lexicographic by code point
str_less(a, b) ==
    \E k \in 1..Len(b) :
        /\ \A j \in 1..(k - 1) : j <= Len(a) /\ a[j] = b[j]
        /\ \/ k = Len(a) + 1
           \/ k <= Len(a) /\ ord(a[k]) < ord(b[k])

RECURSIVE sorted(_)
sorted(S) ==
    IF S = {} THEN <<>>
    ELSE LET m == CHOOSE x \in S : \A y \in S \ {x} : str_less(x, y)
         IN  <<m>> \o sorted(S \ {m})

\* every sequence over S of length at most n
BoundedSeq(S, n) == UNION {[1..k -> S] : k \in 0..n}

\* every listing of the set S without repetition
RECURSIVE Perms(_)
Perms(S) ==
    IF S = {} THEN {<<>>}
    ELSE UNION {{<<x>> \o p : p \in Perms(S \ {x})} : x \in S}

----------------------------------------------------------------------------
(* Coordinates and distance (store.py _haversine_km)                       *)

\* 35.6895 N 139.6917 E, 35.6852 N 139.7528 E, 35.4437 N 139.6380 E
PointPark == <<356895, 1396917>>
PointMuseum == <<356852, 1397528>>
PointFar == <<354437, 1396380>>
Points == {PointPark, PointMuseum, PointFar}

\* 2 * 6371.0 * atan2(sqrt(a), sqrt(1 - a)) of the source, in metres rounded
\* up, tabulated over Points (d <= radius_km is decided the same on both)
haversine_m(lat1, lng1, lat2, lng2) ==
    LET p == <<lat1, lng1>>
        q == <<lat2, lng2>>
    IN  CASE p = q -> 0
          [] {p, q} = {PointPark, PointMuseum} -> 5539
          [] {p, q} = {PointPark, PointFar} -> 27760
          [] {p, q} = {PointMuseum, PointFar} -> 28792

----------------------------------------------------------------------------
(* Rows of the spots table (models.py Spot) and the seed data              *)

FREE == <<"F","R","E","E">>
U500 == <<"U","5","0","0">>
U1000 == <<"U","1","0","0","0">>
U3000 == <<"U","3","0","0","0">>
OVER3000 == <<"O","V","E","R","3","0","0","0">>

TokyoPark1 ==
    [ id |-> <<"t","o","k","y","o","-","p","a","r","k","-","1">>,
      name |-> <<"k_chi","k_yo","k_da","h_ko","h_do","h_mo","k_kou","k_en">>,
      lat |-> Some(PointPark[1]), lng |-> Some(PointPark[2]),
      address |-> <<"k_tou","k_kyou","k_to","k_chi","k_yo","k_da","k_ku">>,
      summary |-> <<"k_eki","k_chika","h_no","k_chii","h_sa","h_na","k_kou","k_en","maru",
                    "k_sube","h_ri","k_dai","h_to","k_suna","k_ba","h_a","h_ri","maru">>,
      official_url |-> None,
      cost_range |-> Some(FREE),
      age_min |-> Some(0), age_max |-> Some(8),
      tags |-> << <<"k_oku","k_gai">>,
                  <<"t_be","t_bi","t_bar","t_ka","t_bar","O","K">> >>,
      images |-> <<>>,
      hours |-> Some(<<"9",":","0","0","-","1","7",":","0","0">>) ]

TokyoMuseum1 ==
    [ id |-> <<"t","o","k","y","o","-","m","u","s","e","u","m","-","1">>,
      name |-> <<"k_ka","k_gaku","k_tai","k_ken","t_mi","t_yu","t_bar","t_ji","t_a","t_mu">>,
      lat |-> Some(PointMuseum[1]), lng |-> Some(PointMuseum[2]),
      address |-> <<"k_tou","k_kyou","k_to","k_chi","k_yo","k_da","k_ku">>,
      summary |-> <<"k_oya","k_ko","k_mu","h_ke","k_tai","k_ken","k_ten","k_ji","maru",
                    "k_ame","h_no","k_hi","h_ni","h_mo","h_o","h_su","h_su","h_me","maru">>,
      official_url |-> Some(<<"h","t","t","p","s",":","/","/","e","x","a","m","p","l","e",".","c","o","m">>),
      cost_range |-> Some(U1000),
      age_min |-> Some(3), age_max |-> Some(12),
      tags |-> << <<"k_oku","k_nai">>,
                  <<"k_ame","h_de","h_mo","O","K">>,
                  <<"k_ju","k_nyuu","k_shitsu">> >>,
      images |-> <<>>,
      hours |-> Some(<<"1","0",":","0","0","-","1","8",":","0","0">>) ]

\* the two rows seed_spots adds
SeedRows == <<TokyoPark1, TokyoMuseum1>>

----------------------------------------------------------------------------
(* Python values of raw records, and calls that return or raise            *)

PyNone == [t |-> "NoneType", v |-> <<>>]
PyStr(s) == [t |-> "str", v |-> s]
PyNum(n) == [t |-> "int", v |-> n]
PyList(items) == [t |-> "list", v |-> items]

\* bool(x)
truthy(x) ==
    CASE x.t = "NoneType" -> FALSE
      [] x.t = "str" -> x.v # <<>>
      [] x.t = "int" -> x.v # 0
      [] x.t = "list" -> x.v # <<>>

\* raw.get(key) and raw.get(key, default); a raw record holds only its keys
get(raw, key) == IF key \in DOMAIN raw THEN raw[key] ELSE PyNone
get_default(raw, key, default) == IF key \in DOMAIN raw THEN raw[key] ELSE default

Digits == <<"0","1","2","3","4","5","6","7","8","9">>

RECURSIVE to_dec(_)
to_dec(n) ==
    IF n < 10 THEN <<Digits[n + 1]>> ELSE to_dec(n \div 10) \o <<Digits[(n % 10) + 1]>>

\* how an f-string shows a value (str, None and non-negative int)
format(x) ==
    CASE x.t = "str" -> x.v
      [] x.t = "NoneType" -> <<"N","o","n","e">>
      [] x.t = "int" -> to_dec(x.v)

Returned(value) == [raised |-> FALSE, error |-> "", value |-> value]
Raised(error) == [raised |-> TRUE, error |-> error, value |-> PyNone]

----------------------------------------------------------------------------
(* Record Normalizer and Deduplicator (batch/fetch_spots.py)               *)

Allowed == {FREE, U500, U1000, U3000, OVER3000}

normalize_cost_range(value) ==
    IF ~truthy(value) THEN Returned(PyNone)
    ELSE IF value.t # "str" THEN Raised("AttributeError")
    ELSE LET up == str_upper(value.v)
         IN  Returned(IF up \in Allowed THEN PyStr(up) ELSE PyNone)

\* sorted({t.strip() for t in tags if t.strip()}): a str iterates by
\* character, None and int do not iterate, only str has strip
normalize_tags(tags) ==
    IF tags.t \notin {"str", "list"} THEN Raised("TypeError")
    ELSE LET items == IF tags.t = "str"
                      THEN [i \in 1..Len(tags.v) |-> PyStr(<<tags.v[i]>>)]
                      ELSE tags.v
         IN  IF \E i \in 1..Len(items) : items[i].t # "str"
             THEN Raised("AttributeError")
             ELSE LET kept == sorted({str_strip(items[i].v) : i \in 1..Len(items)} \ {<<>>})
                  IN  Returned(PyList([i \in 1..Len(kept) |-> PyStr(kept[i])]))

\* normalize_record; now stands for datetime.utcnow().isoformat() + "Z"
normalize_record(raw, source, now) ==
    LET cost == normalize_cost_range(get(raw, "cost_range"))
        tags == normalize_tags(get_default(raw, "tags", PyList(<<>>)))
    IN  IF cost.raised THEN Raised(cost.error)
        ELSE IF tags.raised THEN Raised(tags.error)
        ELSE Returned(
            [ id |-> IF truthy(get(raw, "id")) THEN get(raw, "id")
                     ELSE PyStr(source \o <<":">>
                                \o format(get_default(raw, "name", PyStr(<<"u","n","k","n","o","w","n">>)))),
              name |-> get_default(raw, "name", PyStr(<<>>)),
              address |-> get_default(raw, "address", PyStr(<<>>)),
              summary |-> get_default(raw, "summary", PyStr(<<>>)),
              lat |-> get(raw, "lat"),
              lng |-> get(raw, "lng"),
              official_url |-> get(raw, "official_url"),
              cost_range |-> cost.value,
              age_min |-> get(raw, "age_min"),
              age_max |-> get(raw, "age_max"),
              tags |-> tags.value,
              images |-> get_default(raw, "images", PyList(<<>>)),
              hours |-> get(raw, "hours"),
              source |-> PyStr(source),
              last_seen |-> now ])

\* a key that lower-cases without trimming
dedupe_key_untrimmed(record) ==
    <<str_lower(record.name.v), str_lower(record.address.v)>>

\* key = (record.name.strip().lower(), record.address.strip().lower())
dedupe_key(record) ==
    <<str_lower(str_strip(record.name.v)), str_lower(str_strip(record.address.v))>>

RECURSIVE dedupe_loop(_, _, _)
dedupe_loop(records, seen, result) ==
    IF records = <<>> THEN Returned(result)
    ELSE LET record == Head(records)
         IN  IF record.name.t # "str" \/ record.address.t # "str"
             THEN Raised("AttributeError")
             ELSE IF dedupe_key(record) \in seen
             THEN dedupe_loop(Tail(records), seen, result)
             ELSE dedupe_loop(Tail(records), seen \cup {dedupe_key(record)},
                              Append(result, record))

dedupe(records) == dedupe_loop(records, {}, <<>>)

----------------------------------------------------------------------------
(* Raw records of the sources                                              *)

LocalSample == <<"l","o","c","a","l","-","s","a","m","p","l","e">>
Official == <<"o","f","f","i","c","i","a","l">>

\* LocalSampleSource.fetch
RawSamplePark ==
    [ id |-> PyStr(<<"s","a","m","p","l","e","-","p","a","r","k","-","1">>),
      name |-> PyStr(<<"S","a","m","p","l","e"," ","P","a","r","k">>),
      address |-> PyStr(<<"C","h","i","y","o","d","a","-","k","u",","," ","T","o","k","y","o">>),
      summary |-> PyStr(<<"P","l","a","y","g","r","o","u","n","d"," ","a","n","d"," ","s","a","n","d","b","o","x",".">>),
      lat |-> PyNum(PointPark[1]), lng |-> PyNum(PointPark[2]),
      official_url |-> PyNone,
      cost_range |-> PyStr(FREE),
      age_min |-> PyNum(0), age_max |-> PyNum(8),
      tags |-> PyList(<<PyStr(<<"O","u","t","d","o","o","r">>), PyStr(<<"S","t","r","o","l","l","e","r"," ","O","K">>)>>),
      images |-> PyList(<<>>),
      hours |-> PyStr(<<"9",":","0","0","-","1","7",":","0","0">>) ]

\* the same place from another feed: no id, the name in another case with a
\* trailing blank, cost and tags not yet canonical
RawSampleParkAgain ==
    [ name |-> PyStr(<<"s","a","m","p","l","e"," ","p","a","r","k"," ">>),
      address |-> PyStr(<<"C","h","i","y","o","d","a","-","k","u",","," ","T","o","k","y","o">>),
      summary |-> PyStr(<<"P","a","r","k",".">>),
      lat |-> PyNum(PointPark[1]), lng |-> PyNum(PointPark[2]),
      cost_range |-> PyStr(<<"f","r","e","e">>),
      tags |-> PyList(<<PyStr(<<"S","t","r","o","l","l","e","r"," ","O","K"," ">>), PyStr(<<" ","O","u","t","d","o","o","r">>), PyStr(<<" ">>)>>) ]

\* a record with no age bounds, no cost tier and no tags
RawFarHall ==
    [ id |-> PyStr(<<"f","a","r","-","h","a","l","l">>),
      name |-> PyStr(<<"F","a","r"," ","H","a","l","l">>),
      address |-> PyStr(<<"Y","o","k","o","h","a","m","a">>),
      lat |-> PyNum(PointFar[1]), lng |-> PyNum(PointFar[2]),
      cost_range |-> PyStr(<<"e","x","p","e","n","s","i","v","e">>) ]

\* a record with only a lower age bound
RawAnnex ==
    [ id |-> PyStr(<<"a","n","n","e","x">>),
      name |-> PyStr(<<"A","n","n","e","x">>),
      address |-> PyStr(<<"T","o","k","y","o">>),
      summary |-> PyStr(<<"p","a","r","k"," ","a","n","n","e","x">>),
      lat |-> PyNum(PointMuseum[1]), lng |-> PyNum(PointMuseum[2]),
      cost_range |-> PyStr(<<"u","1","0","0","0">>),
      age_min |-> PyNum(13),
      tags |-> PyList(<<PyStr(<<"O","u","t","d","o","o","r">>)>>) ]

\* SpotRecords the ingestion pipeline has handed to upsert_to_db
ExtraRecords ==
    << normalize_record(RawSamplePark, LocalSample, 0).value,
       normalize_record(RawFarHall, LocalSample, 0).value,
       normalize_record(RawAnnex, LocalSample, 0).value >>
Extras == {ExtraRecords[i] : i \in 1..NumExtraSpots}

SpotIds == {SeedRows[i].id : i \in 1..Len(SeedRows)} \cup {r.id.v : r \in Extras}
\* an id no stored row ever has
NonexistentId == <<"n","o","n","e","x","i","s","t","e","n","t","-","i","d">>

Users == {"alice", "bob"}

----------------------------------------------------------------------------
(* Storage: the tables and what SQL does on them                           *)

the(opt) == CHOOSE x \in opt : TRUE

\* faulty variant of session_get: the lookup forgets the primary key and takes any row
session_get_any_row(tbl, spot_id) ==
    IF DOMAIN tbl # {} THEN Some(tbl[CHOOSE id \in DOMAIN tbl : TRUE]) ELSE None

\* session.get(models.Spot, spot_id): the row, or None
session_get(tbl, spot_id) ==
    IF spot_id \in DOMAIN tbl THEN Some(tbl[spot_id]) ELSE None

\* INSERT of rows into spots; the primary key id rejects a second row
insert_spots(tbl, rows) ==
    IF \E i \in 1..Len(rows) : rows[i].id \in DOMAIN tbl
    THEN [error |-> TRUE, table |-> tbl]
    ELSE [error |-> FALSE,
          table |-> [id \in DOMAIN tbl \cup {rows[i].id : i \in 1..Len(rows)} |->
                        IF id \in DOMAIN tbl THEN tbl[id]
                        ELSE (CHOOSE r \in SeqToSet(rows) : r.id = id)]]

\* faulty variant of seed_needed: seeds whenever the seed rows are not stored
seed_needed_when_seeds_missing(tbl) ==
    \A i \in 1..Len(SeedRows) : SeedRows[i].id \notin DOMAIN tbl

\* seed_spots reads one id (any row's; stored ids are never empty) and
\* returns early when it is truthy
seed_needed(tbl) == ~ \E id \in DOMAIN tbl : id # <<>>

\* seed_spots, alone on the database: the table after its session committed
seed_spots(tbl) ==
    IF seed_needed(tbl) THEN insert_spots(tbl, SeedRows).table ELSE tbl

\* faulty variant of existing_favorite: the where clause looks for another spot id
existing_favorite_wrong_spot(fav, u, s) ==
    IF BagIn(<<u, NonexistentId>>, fav) THEN Some(<<u, NonexistentId>>) ELSE None

\* select(Favorite).where(user_id == u, spot_id == s).scalar()
existing_favorite(fav, u, s) ==
    IF BagIn(<<u, s>>, fav) THEN Some(<<u, s>>) ELSE None

\* INSERT of one favorites row; the composite primary key (user_id, spot_id)
\* rejects a second row with the same pair
insert_favorite(fav, u, s) ==
    IF BagIn(<<u, s>>, fav)
    THEN [error |-> TRUE, table |-> fav]
    ELSE [error |-> FALSE, table |-> fav (+) SetToBag({<<u, s>>})]

\* delete(Favorite).where(user_id == u, spot_id == s): every matching row
delete_favorite(fav, u, s) ==
    [k \in DOMAIN fav \ {<<u, s>>} |-> fav[k]]

\* a nullable column out of a Python value: None is NULL
nullable(x) == IF x.t = "NoneType" THEN None ELSE Some(x.v)

\* the columns upsert_to_db writes, out of a SpotRecord (asdict, then
\* Json(payload.get("tags") or []) and the same for images)
payload_row(r) ==
    [ id |-> r.id.v, name |-> r.name.v,
      lat |-> nullable(r.lat), lng |-> nullable(r.lng),
      address |-> r.address.v, summary |-> r.summary.v,
      official_url |-> nullable(r.official_url),
      cost_range |-> nullable(r.cost_range),
      age_min |-> nullable(r.age_min), age_max |-> nullable(r.age_max),
      tags |-> IF truthy(r.tags) THEN [i \in 1..Len(r.tags.v) |-> r.tags.v[i].v] ELSE <<>>,
      images |-> IF truthy(r.images) THEN [i \in 1..Len(r.images.v) |-> r.images.v[i].v] ELSE <<>>,
      hours |-> nullable(r.hours) ]

\* models.py: id is the primary key; name, lat, lng, address and summary are
\* nullable=False
not_null_violation(r) ==
    \E x \in {r.id, r.name, r.lat, r.lng, r.address, r.summary} : x.t = "NoneType"

\* an upsert that keeps the rows written before the failing one
RECURSIVE upsert_rows_no_rollback(_, _)
upsert_rows_no_rollback(tbl, records) ==
    IF records = <<>> THEN [error |-> FALSE, table |-> tbl]
    ELSE IF not_null_violation(Head(records)) THEN [error |-> TRUE, table |-> tbl]
    ELSE LET row == payload_row(Head(records))
         IN  upsert_rows_no_rollback(
                 [id \in DOMAIN tbl \cup {row.id} |->
                     IF id = row.id THEN row ELSE tbl[id]],
                 Tail(records))

\* INSERT ... ON CONFLICT (id) DO UPDATE, record by record in one transaction;
\* a NULL in a NOT NULL column aborts the whole transaction
RECURSIVE upsert_rows(_, _)
upsert_rows(tbl, records) ==
    IF records = <<>> THEN [error |-> FALSE, table |-> tbl]
    ELSE IF not_null_violation(Head(records)) THEN [error |-> TRUE, table |-> tbl]
    ELSE LET row == payload_row(Head(records))
             up == upsert_rows(
                     [id \in DOMAIN tbl \cup {row.id} |->
                         IF id = row.id THEN row ELSE tbl[id]],
                     Tail(records))
         IN  IF up.error THEN [error |-> TRUE, table |-> tbl] ELSE up

\* _to_spot: the response shape, which has no hours
to_spot(row) ==
    [ id |-> row.id, name |-> row.name, lat |-> row.lat, lng |-> row.lng,
      address |-> row.address, summary |-> row.summary,
      official_url |-> row.official_url, cost_range |-> row.cost_range,
      age_min |-> row.age_min, age_max |-> row.age_max,
      tags |-> row.tags, images |-> row.images ]

\* faulty variant of favorites_join: the where clause on user_id is missing
favorites_join_any_user(tbl, fav, u) ==
    LET ids == {id \in DOMAIN tbl : \E k \in BagToSet(fav) : k[2] = id}
    IN  [row \in {tbl[id] : id \in ids} |->
            Cardinality({k \in BagToSet(fav) : k[2] = row.id})]

\* the rows of select(Spot).join(Favorite, Favorite.spot_id == Spot.id)
\* .where(Favorite.user_id == u): one per joined favorites row
favorites_join(tbl, fav, u) ==
    LET ids == {id \in DOMAIN tbl : BagIn(<<u, id>>, fav)}
    IN  [row \in {tbl[id] : id \in ids} |-> fav[<<u, row.id>>]]

\* every order in which the rows of a bag can come back
Arrangements(B) ==
    {q \in [1..BagCardinality(B) -> BagToSet(B)] :
        \A e \in BagToSet(B) :
            Cardinality({i \in 1..BagCardinality(B) : q[i] = e}) = B[e]}

----------------------------------------------------------------------------
(* Search criteria and the filters of list_spots                           *)

DefaultRadiusM == 5000
DefaultLimit == 20

NoCriteria ==
    [ lat |-> None, lng |-> None, radius_m |-> DefaultRadiusM, q |-> None,
      tags |-> None, age |-> None, cost_range |-> None,
      limit |-> DefaultLimit, offset |-> 0 ]

filter_origin(items, c) ==
    IF c.lat # None /\ c.lng # None
    THEN SelectSeq(items,
            LAMBDA s : haversine_m(the(c.lat), the(c.lng), the(s.lat), the(s.lng))
                         <= c.radius_m)
    ELSE items

filter_query(items, c) ==
    IF c.q # None /\ the(c.q) # <<>>
    THEN LET qn == str_lower(the(c.q))
         IN  SelectSeq(items,
                LAMBDA s : \/ str_contains(qn, str_lower(s.name))
                           \/ str_contains(qn, str_lower(s.address))
                           \/ str_contains(qn, str_lower(s.summary))
                           \/ \E i \in 1..Len(s.tags) :
                                 str_contains(qn, str_lower(s.tags[i])))
    ELSE items

\* faulty variant of filter_tags: every criteria tag must be on the spot (issubset)
filter_tags_subset(items, c) ==
    IF c.tags # None /\ the(c.tags) # {}
    THEN SelectSeq(items, LAMBDA s : the(c.tags) \subseteq SeqToSet(s.tags))
    ELSE items

filter_tags(items, c) ==
    IF c.tags # None /\ the(c.tags) # {}
    THEN SelectSeq(items, LAMBDA s : the(c.tags) \cap SeqToSet(s.tags) # {})
    ELSE items

filter_age(items, c) ==
    IF c.age # None
    THEN SelectSeq(items,
            LAMBDA s : /\ (s.age_min = None \/ the(c.age) >= the(s.age_min))
                       /\ (s.age_max = None \/ the(c.age) <= the(s.age_max)))
    ELSE items

filter_cost(items, c) ==
    IF c.cost_range # None /\ the(c.cost_range) # <<>>
    THEN SelectSeq(items, LAMBDA s : s.cost_range = c.cost_range)
    ELSE items

\* the filters in the order list_spots applies them
list_matched(rows, c) ==
    filter_cost(filter_age(filter_tags(filter_query(filter_origin(rows, c), c), c), c), c)

\* faulty variant of slice: the limit is taken as the end position
slice_limit_as_end(items, offset, limit) ==
    IF offset >= Len(items) \/ limit <= offset THEN <<>>
    ELSE SubSeq(items, offset + 1, IF limit <= Len(items) THEN limit ELSE Len(items))

\* Python's items[offset : offset + limit]
slice(items, offset, limit) ==
    IF offset >= Len(items) THEN <<>>
    ELSE SubSeq(items, offset + 1,
                IF offset + limit <= Len(items) THEN offset + limit ELSE Len(items))

\* [_to_spot(s) for s in rows]
to_spots(rows) == [i \in 1..Len(rows) |-> to_spot(rows[i])]

----------------------------------------------------------------------------
(* Backend requests, one at a time: last holds the request being answered  *)

Idle ==
    [ op |-> "none", user |-> "", spot |-> <<>>, crit |-> NoCriteria,
      result |-> "none", scan |-> <<>>, matched |-> <<>>, items |-> <<>>,
      favBefore |-> EmptyBag, spotsBefore |-> <<>> ]

Called(op, u, s) ==
    [Idle EXCEPT !.op = op, !.user = u, !.spot = s,
                 !.favBefore = favorites, !.spotsBefore = spots]

\* store.add_favorite, surfaced by routes/favorites.py add_favorite:
\* True is 200, False is 404, an exception out of session_scope is 500
AddFavorite(u, s) ==
    LET seeded == seed_spots(spots)
        spot == session_get(seeded, s)
        ins == insert_favorite(favorites, u, s)
        result == IF spot = None THEN "not_found"
                  ELSE IF existing_favorite(favorites, u, s) # None THEN "ok"
                  ELSE IF ins.error THEN "error"
                  ELSE "ok"
    IN  /\ spots' = seeded
        /\ favorites' = IF spot # None /\ existing_favorite(favorites, u, s) = None
                        THEN ins.table
                        ELSE favorites
        /\ last' = [Called("add_favorite", u, s) EXCEPT !.result = result]
        /\ UNCHANGED <<reqs, run, snapshot, norm, session>>

\* store.remove_favorite (it does not seed)
RemoveFavorite(u, s) ==
    /\ favorites' = delete_favorite(favorites, u, s)
    /\ last' = [Called("remove_favorite", u, s) EXCEPT !.result = "ok"]
    /\ UNCHANGED <<spots, reqs, run, snapshot, norm, session>>

\* store.get_favorites; the join has no ORDER BY, its rows come in any order
GetFavorites(u) ==
    LET seeded == seed_spots(spots)
    IN  /\ spots' = seeded
        /\ \E rows \in Arrangements(favorites_join(seeded, favorites, u)) :
              last' = [Called("get_favorites", u, <<>>) EXCEPT
                          !.result = "ok", !.items = to_spots(rows)]
        /\ UNCHANGED <<favorites, reqs, run, snapshot, norm, session>>

\* store.list_spots; select(Spot) has no ORDER BY, the scan comes in any order
ListSpots(c) ==
    LET seeded == seed_spots(spots)
    IN  /\ spots' = seeded
        /\ \E scan \in Perms({seeded[id] : id \in DOMAIN seeded}) :
              LET matched == list_matched(scan, c)
              IN  last' = [Called("list_spots", "", <<>>) EXCEPT
                              !.crit = c, !.result = "ok", !.scan = scan,
                              !.matched = matched,
                              !.items = to_spots(slice(matched, c.offset, c.limit))]
        /\ UNCHANGED <<favorites, reqs, run, snapshot, norm, session>>

\* a committed upsert_to_db of the ingestion pipeline
Upsert(records) ==
    LET up == upsert_rows(spots, records)
    IN  /\ ~up.error
        /\ spots' = up.table
        /\ UNCHANGED <<favorites, last, reqs, run, snapshot, norm, session>>

\* a spot row is deleted; favorites has no foreign key, its rows stay
DeleteSpot(s) ==
    /\ s \in DOMAIN spots
    /\ spots' = [id \in DOMAIN spots \ {s} |-> spots[id]]
    /\ UNCHANGED <<favorites, last, reqs, run, snapshot, norm, session>>

\* requests are served one at a time: one starts when none is being answered
NoRequest == last.op = "none"

\* the route returns its response; the next request starts after it
Return ==
    /\ last.op # "none"
    /\ last' = Idle
    /\ UNCHANGED <<spots, favorites, reqs, run, snapshot, norm, session>>

EmptyTable == <<>>

\* no session_scope is entered
NoSession ==
    [ pc |-> "none", op |-> "none", user |-> "", spot |-> <<>>, open |-> FALSE,
      body |-> "none", pending |-> "none", calls |-> <<>>, committed |-> FALSE,
      commitRaised |-> FALSE, outcome |-> "none",
      spotsBefore |-> <<>>, favBefore |-> EmptyBag ]

InitIdle ==
    /\ reqs = <<>>
    /\ run = [pc |-> "idle"]
    /\ snapshot = None
    /\ session = NoSession
    /\ norm = [pc |-> "idle"]

Init ==
    /\ spots = EmptyTable
    /\ favorites = EmptyBag
    /\ last = Idle
    /\ InitIdle

Next ==
    \/ NoRequest /\ \E u \in Users, s \in SpotIds \cup {NonexistentId} : AddFavorite(u, s)
    \/ NoRequest /\ \E u \in Users, s \in SpotIds \cup {NonexistentId} : RemoveFavorite(u, s)
    \/ NoRequest /\ \E u \in Users : GetFavorites(u)
    \/ NoRequest /\ \E records \in BoundedSeq(Extras, MaxBatch) : Upsert(records)
    \/ NoRequest /\ \E s \in SpotIds : DeleteSpot(s)
    \/ Return

Spec == Init /\ [][Next]_vars

\* favorites requests only, over any stored set of spots: no spot is deleted
TablesOver(rows) ==
    {[id \in {r.id : r \in R} |-> CHOOSE r \in R : r.id = id] : R \in SUBSET rows}

InitFav ==
    /\ spots \in TablesOver(SeqToSet(SeedRows) \cup {payload_row(r) : r \in Extras})
    /\ favorites = EmptyBag
    /\ last = Idle
    /\ InitIdle

NextFav ==
    \/ NoRequest /\ \E u \in Users, s \in SpotIds \cup {NonexistentId} : AddFavorite(u, s)
    \/ NoRequest /\ \E u \in Users, s \in SpotIds \cup {NonexistentId} : RemoveFavorite(u, s)
    \/ NoRequest /\ \E u \in Users : GetFavorites(u)
    \/ NoRequest /\ \E records \in BoundedSeq(Extras, MaxBatch) : Upsert(records)
    \/ Return

SpecFav == InitFav /\ [][NextFav]_vars

\* search requests against a store the ingestion fills
Origins ==
    { <<None, None>>,
      <<Some(PointPark[1]), None>>,
      <<Some(PointPark[1]), Some(PointPark[2])>> }
Queries == {None, Some(<<>>), Some(<<"O","k">>)}
TagSets == {None, Some({}), Some({<<"O","u","t","d","o","o","r">>, <<"k_oku","k_nai">>})}
Ages == {None, Some(2)}
Costs == {None, Some(<<>>), Some(FREE)}

CriteriaSets ==
    { [ NoCriteria EXCEPT !.lat = o[1], !.lng = o[2], !.q = q, !.tags = t,
                          !.age = a, !.cost_range = k ] :
      o \in Origins, q \in Queries, t \in TagSets, a \in Ages, k \in Costs }

NextSearch ==
    \/ NoRequest /\ \E c \in CriteriaSets : ListSpots(c)
    \/ NoRequest /\ \E records \in BoundedSeq(Extras, MaxBatch) : Upsert(records)
    \/ NoRequest /\ \E s \in SpotIds : DeleteSpot(s)
    \/ Return

SpecSearch == Init /\ [][NextSearch]_vars

----------------------------------------------------------------------------
(* Claims about the favorites index                                        *)

\* C1: after any sequence of add_favorite and remove_favorite calls the
\* favorites relation holds at most one row per (user_id, spot_id) pair;
\* add_favorite on a pair that already exists returns success and leaves the
\* relation unchanged; remove_favorite on an absent pair returns without
\* error and leaves the relation unchanged.
C1_FavoriteIdempotence ==
    /\ \A k \in BagToSet(favorites) : CopiesIn(k, favorites) <= 1
    /\ (last.op = "add_favorite" /\ BagIn(<<last.user, last.spot>>, last.favBefore))
          => (last.result = "ok" /\ favorites = last.favBefore)
    /\ (last.op = "remove_favorite" /\ ~BagIn(<<last.user, last.spot>>, last.favBefore))
          => (last.result = "ok" /\ favorites = last.favBefore)

\* an add of a pair that was already there, after which other rows exist too
C1_Witness ==
    /\ last.op = "add_favorite"
    /\ BagIn(<<last.user, last.spot>>, last.favBefore)
    /\ last.result = "ok"
    /\ BagCardinality(favorites) >= 2

\* C2: add_favorite(u, s) with no spot s at the time of the lookup returns
\* not-found (False, HTTP 404) and leaves the favorites relation as it was.
C2_AddToMissingSpot ==
    (last.op = "add_favorite" /\ last.spot \notin DOMAIN spots)
        => (last.result = "not_found" /\ favorites = last.favBefore)

\* a not-found add against a relation that already holds a row
C2_Witness ==
    /\ last.op = "add_favorite"
    /\ last.spot \notin DOMAIN spots
    /\ last.result = "not_found"
    /\ favorites # EmptyBag

\* C5: get_favorites(u) returns exactly the spots that are stored now and
\* have a favorites row (u, spot id), each once: a row whose spot is gone
\* contributes nothing, and no spot only another user favorited appears.
C5_FavoritesJoin ==
    last.op = "get_favorites" =>
        LET want == {to_spot(spots[id]) :
                        id \in {i \in DOMAIN spots : BagIn(<<last.user, i>>, favorites)}}
        IN  /\ SeqToSet(last.items) = want
            /\ Len(last.items) = Cardinality(want)

\* a listing for a user who has an orphaned row and a live one, while another
\* user has favorited a spot this user has not
C5_Witness ==
    /\ last.op = "get_favorites"
    /\ last.items # <<>>
    /\ \E k \in BagToSet(favorites) : k[1] = last.user /\ k[2] \notin DOMAIN spots
    /\ \E k \in BagToSet(favorites) :
          /\ k[1] # last.user
          /\ k[2] \in DOMAIN spots
          /\ ~BagIn(<<last.user, k[2]>>, favorites)

----------------------------------------------------------------------------
(* Claims about search                                                     *)

SeedTable == insert_spots(EmptyTable, SeedRows).table

FilterAt(k, items, c) ==
    CASE k = 1 -> filter_origin(items, c)
      [] k = 2 -> filter_query(items, c)
      [] k = 3 -> filter_tags(items, c)
      [] k = 4 -> filter_age(items, c)
      [] k = 5 -> filter_cost(items, c)

RECURSIVE ApplyInOrder(_, _, _)
ApplyInOrder(order, items, c) ==
    IF order = <<>> THEN items
    ELSE ApplyInOrder(Tail(order), FilterAt(Head(order), items, c), c)

FilterOrders == Perms(1..5)

\* what the criteria ask of one spot, each option on its own
OriginOk(s, c) ==
    (c.lat # None /\ c.lng # None) =>
        haversine_m(the(c.lat), the(c.lng), the(s.lat), the(s.lng)) <= c.radius_m
QueryOk(s, c) ==
    (c.q # None /\ the(c.q) # <<>>) =>
        \E text \in {s.name, s.address, s.summary} \cup SeqToSet(s.tags) :
            str_contains(str_lower(the(c.q)), str_lower(text))
TagsOk(s, c) ==
    (c.tags # None /\ the(c.tags) # {}) =>
        \E t \in the(c.tags) : t \in SeqToSet(s.tags)
AgeOk(s, c) ==
    c.age # None =>
        /\ \A lo \in s.age_min : the(c.age) >= lo
        /\ \A hi \in s.age_max : the(c.age) <= hi
CostOk(s, c) ==
    (c.cost_range # None /\ the(c.cost_range) # <<>>) =>
        s.cost_range = c.cost_range

\* C10: the matched set of a search before pagination is the set of spots
\* that satisfy every active predicate (origin/radius, query, tags, age,
\* cost_range), and applying the five filters in any of their permutations
\* gives that same set.
C10_FilterOrderIndependence ==
    last.op = "list_spots" =>
        LET c == last.crit
            all == {s \in SeqToSet(last.scan) :
                      OriginOk(s, c) /\ QueryOk(s, c) /\ TagsOk(s, c)
                      /\ AgeOk(s, c) /\ CostOk(s, c)}
        IN  /\ SeqToSet(last.matched) = all
            /\ \A order \in FilterOrders :
                  SeqToSet(ApplyInOrder(order, last.scan, c)) = all

\* a search with all five predicates active that keeps one spot of three or
\* more and drops the others
C10_Witness ==
    /\ last.op = "list_spots"
    /\ last.crit.lat # None /\ last.crit.lng # None
    /\ last.crit.q # None /\ the(last.crit.q) # <<>>
    /\ last.crit.tags # None /\ the(last.crit.tags) # {}
    /\ last.crit.age # None
    /\ last.crit.cost_range # None /\ the(last.crit.cost_range) # <<>>
    /\ Len(last.scan) >= 3
    /\ Len(last.matched) = 1

----------------------------------------------------------------------------
(* add_favorite requests in parallel, each in its own sessions             *)
(*                                                                         *)
(* A request reads and writes the shared tables statement by statement.    *)
(* session.add only marks the row pending: the INSERT is sent when         *)
(* session_scope commits, and a primary key conflict there raises          *)
(* IntegrityError, which session_scope rolls back and re-raises.           *)

Requests == 1..NumRequests
ConcSpots == {TokyoPark1.id, NonexistentId}

NotStarted == [pc |-> "idle", user |-> "", spot |-> <<>>, found |-> FALSE, result |-> "none"]

\* the route calls store.add_favorite(user_id, payload.spot_id)
Start(r, u, s) ==
    /\ reqs[r].pc = "idle"
    /\ reqs' = [reqs EXCEPT ![r] = [NotStarted EXCEPT !.pc = "seed_read", !.user = u, !.spot = s]]
    /\ UNCHANGED <<spots, favorites, last, run, snapshot, norm, session>>

\* seed_spots: existing = select(Spot.id).limit(1); return when truthy,
\* else session.add_all marks the two seed rows pending
SeedRead(r) ==
    /\ reqs[r].pc = "seed_read"
    /\ reqs' = [reqs EXCEPT ![r].pc = IF seed_needed(spots) THEN "seed_commit" ELSE "lookup"]
    /\ UNCHANGED <<spots, favorites, last, run, snapshot, norm, session>>

\* seed_spots: session_scope commits the pending seed rows, or rolls back and
\* re-raises when a seed id has been stored meanwhile
SeedCommit(r) ==
    LET ins == insert_spots(spots, SeedRows)
    IN  /\ reqs[r].pc = "seed_commit"
        /\ spots' = ins.table
        /\ reqs' = [reqs EXCEPT ![r].pc = IF ins.error THEN "done" ELSE "lookup",
                                ![r].result = IF ins.error THEN "error" ELSE "none"]
        /\ UNCHANGED <<favorites, last, run, snapshot, norm, session>>

\* spot = session.get(models.Spot, spot_id); if not spot: return False
Lookup(r) ==
    LET spot == session_get(spots, reqs[r].spot)
    IN  /\ reqs[r].pc = "lookup"
        /\ reqs' = [reqs EXCEPT ![r].pc = IF spot = None THEN "done" ELSE "check",
                                ![r].found = spot # None,
                                ![r].result = IF spot = None THEN "not_found" ELSE "none"]
        /\ UNCHANGED <<spots, favorites, last, run, snapshot, norm, session>>

\* existing = select(Favorite).where(...).scalar(); if not existing:
\* session.add(Favorite(...)); with a row found the commit has nothing to write
Check(r) ==
    LET existing == existing_favorite(favorites, reqs[r].user, reqs[r].spot)
    IN  /\ reqs[r].pc = "check"
        /\ reqs' = [reqs EXCEPT ![r].pc = IF existing = None THEN "commit" ELSE "done",
                                ![r].result = IF existing = None THEN "none" ELSE "ok"]
        /\ UNCHANGED <<spots, favorites, last, run, snapshot, norm, session>>

\* session_scope: session.commit() sends the pending INSERT; on
\* IntegrityError session.rollback() and raise, else return True
Commit(r) ==
    LET ins == insert_favorite(favorites, reqs[r].user, reqs[r].spot)
    IN  /\ reqs[r].pc = "commit"
        /\ favorites' = ins.table
        /\ reqs' = [reqs EXCEPT ![r].pc = "done",
                                ![r].result = IF ins.error THEN "error" ELSE "ok"]
        /\ UNCHANGED <<spots, last, run, snapshot, norm, session>>

InitConc ==
    /\ spots \in {EmptyTable, insert_spots(EmptyTable, SeedRows).table}
    /\ favorites = EmptyBag
    /\ last = Idle
    /\ reqs = [r \in Requests |-> NotStarted]
    /\ run = [pc |-> "idle"]
    /\ snapshot = None
    /\ session = NoSession
    /\ norm = [pc |-> "idle"]

NextConc ==
    \/ \E r \in Requests, u \in Users, s \in ConcSpots : Start(r, u, s)
    \/ \E r \in Requests : SeedRead(r)
    \/ \E r \in Requests : SeedCommit(r)
    \/ \E r \in Requests : Lookup(r)
    \/ \E r \in Requests : Check(r)
    \/ \E r \in Requests : Commit(r)

SpecConc == InitConc /\ [][NextConc]_vars

\* C3: when add_favorite requests for the same pair and an existing spot
\* interleave, each in its own transaction, every request ends in success
\* (none in an error) and exactly one (u, s) row exists afterwards.
C3_ConcurrentAddsSucceed ==
    \A r \in Requests :
        (reqs[r].pc = "done" /\ reqs[r].found) =>
            /\ reqs[r].result = "ok"
            /\ CopiesIn(<<reqs[r].user, reqs[r].spot>>, favorites) = 1

----------------------------------------------------------------------------
(* The Record Normalizer over untrusted raw records                        *)

Missing == [t |-> "missing", v |-> <<>>]

\* a dict literal: a key is present only when a value is given for it
with_key(raw, key, x) == IF x.t = "missing" THEN raw ELSE (key :> x) @@ raw

RawIds == {Missing, PyNone, PyStr(<<>>), PyStr(<<"s","a","m","p","l","e","-","p","a","r","k","-","1">>)}
RawNames == {Missing, PyNone, PyStr(<<"S","a","m","p","l","e"," ","P","a","r","k">>)}
RawCosts ==
    {Missing, PyNone, PyStr(<<>>), PyStr(<<"f","r","e","e">>), PyStr(<<"F","R","E","E">>), PyStr(<<"U","5","0","0">>),
     PyStr(<<"u","1","0","0","0">>), PyStr(<<"U","3","0","0","0">>), PyStr(<<"O","v","e","r","3","0","0","0">>), PyStr(<<"b","o","g","u","s">>),
     PyNum(0), PyNum(500)}
RawTags ==
    {Missing, PyNone, PyList(<<>>),
     PyList(<<PyStr(<<"S","t","r","o","l","l","e","r"," ","O","K"," ">>), PyStr(<<" ","O","u","t","d","o","o","r">>), PyStr(<<" ">>), PyStr(<<"O","u","t","d","o","o","r">>)>>),
     PyList(<<PyNum(5)>>), PyList(<<PyStr(<<"O","u","t","d","o","o","r">>), PyNone>>),
     PyStr(<<"a"," ","b">>), PyNum(7)}

RawInputs ==
    { with_key(with_key(with_key(with_key(
          [address |-> PyStr(<<"C","h","i","y","o","d","a","-","k","u",","," ","T","o","k","y","o">>)],
          "id", id), "name", name), "cost_range", cost), "tags", tags) :
      id \in RawIds, name \in RawNames, cost \in RawCosts, tags \in RawTags }

\* normalized.append(normalize_record(raw, source.name)) for one raw record
NormalizeRecord ==
    /\ norm.pc = "input"
    /\ norm' = [norm EXCEPT !.pc = "done",
                            !.out = normalize_record(norm.raw, norm.source, 0)]
    /\ UNCHANGED <<spots, favorites, last, reqs, run, snapshot, session>>

InitNorm ==
    /\ spots = EmptyTable
    /\ favorites = EmptyBag
    /\ last = Idle
    /\ reqs = <<>>
    /\ run = [pc |-> "idle"]
    /\ snapshot = None
    /\ session = NoSession
    /\ \E raw \in RawInputs, source \in {LocalSample, Official} :
           norm = [pc |-> "input", raw |-> raw, source |-> source, out |-> Raised("")]

NextNorm == NormalizeRecord

SpecNorm == InitNorm /\ [][NextNorm]_vars

\* C8: normalize_record never fails: for every raw record, with fields
\* missing, null or of an unexpected type, it returns a SpotRecord instead of
\* raising, and its cost_range is one of the five tiers or absent.
C8_NormalizeNeverFails ==
    norm.pc = "done" =>
        /\ ~norm.out.raised
        /\ norm.out.value.cost_range \in {PyNone} \cup {PyStr(c) : c \in Allowed}

----------------------------------------------------------------------------
(* The ingestion run (batch/fetch_spots.py run)                            *)

\* a record the spots table refuses: no coordinates
RawNoCoords ==
    [ id |-> PyStr(<<"n","o","-","c","o","o","r","d","s">>),
      name |-> PyStr(<<"L","o","s","t"," ","P","l","a","c","e">>),
      address |-> PyStr(<<"S","o","m","e","w","h","e","r","e">>) ]

\* a record the normalizer raises on
RawBadCost ==
    [ id |-> PyStr(<<"b","a","d","-","c","o","s","t">>),
      name |-> PyStr(<<"N","u","m","b","e","r","e","d">>),
      address |-> PyStr(<<"T","o","k","y","o">>),
      lat |-> PyNum(PointFar[1]), lng |-> PyNum(PointFar[2]),
      cost_range |-> PyNum(500) ]

FeedPool == {RawSampleParkAgain, RawNoCoords, RawBadCost}

\* class Source: fetch raises NotImplementedError
BaseSource == [name |-> <<"s","o","u","r","c","e">>, raises |-> TRUE, raws |-> <<>>]
LocalSampleSource == [name |-> LocalSample, raises |-> FALSE, raws |-> <<RawSamplePark>>]
\* subclasses of Source whose fetch returns a batch of raw records
FeedSources ==
    {[name |-> Official, raises |-> FALSE, raws |-> batch] :
        batch \in BoundedSeq(FeedPool, MaxRecs)}
Sources == {BaseSource, LocalSampleSource} \cup FeedSources

fetch(source) ==
    IF source.raises THEN Raised("NotImplementedError") ELSE Returned(source.raws)

\* for raw in source.fetch(): normalized.append(normalize_record(raw, source.name))
RECURSIVE normalize_each(_, _, _)
normalize_each(raws, source, normalized) ==
    IF raws = <<>> THEN Returned(normalized)
    ELSE LET record == normalize_record(Head(raws), source, Len(normalized))
         IN  IF record.raised THEN Raised(record.error)
             ELSE normalize_each(Tail(raws), source, Append(normalized, record.value))

IdleRun ==
    [ pc |-> "idle", sources |-> <<>>, i |-> 0, normalized |-> <<>>, deduped |-> <<>>,
      upsert_arg |-> None, write_arg |-> None, error |-> "", at |-> "",
      spotsBefore |-> <<>>, snapshotBefore |-> None ]

Abort(r, at, error) == [r EXCEPT !.pc = "aborted", !.at = at, !.error = error]

\* run(sources, output_path) is called
StartRun(sources) ==
    /\ run.pc = "idle"
    /\ run' = [IdleRun EXCEPT !.pc = "fetch", !.sources = sources, !.i = 1,
                              !.spotsBefore = spots, !.snapshotBefore = snapshot]
    /\ UNCHANGED <<spots, favorites, last, reqs, snapshot, norm, session>>

\* one turn of "for source in sources": fetch, then normalize every raw
\* record; an exception of either leaves run
FetchSource ==
    /\ run.pc = "fetch"
    /\ run.i <= Len(run.sources)
    /\ LET source == run.sources[run.i]
           got == fetch(source)
           out == normalize_each(got.value, source.name, run.normalized)
       IN  run' = IF got.raised THEN Abort(run, "fetch", got.error)
                  ELSE IF out.raised THEN Abort(run, "normalize", out.error)
                  ELSE [run EXCEPT !.normalized = out.value, !.i = @ + 1]
    /\ UNCHANGED <<spots, favorites, last, reqs, snapshot, norm, session>>

\* deduped = dedupe(normalized)
Dedupe ==
    /\ run.pc = "fetch"
    /\ run.i > Len(run.sources)
    /\ LET out == dedupe(run.normalized)
       IN  run' = IF out.raised THEN Abort(run, "dedupe", out.error)
                  ELSE [run EXCEPT !.pc = "upsert", !.deduped = out.value]
    /\ UNCHANGED <<spots, favorites, last, reqs, snapshot, norm, session>>

upsert_argument(r) == r.deduped
write_argument(r) == r.deduped

\* upsert_to_db(deduped): RuntimeError without DATABASE_URL; nothing to do
\* for no records; else connect, executemany and commit in one transaction
UpsertToDb(database) ==
    LET records == upsert_argument(run)
        called == [run EXCEPT !.upsert_arg = Some(records)]
        up == upsert_rows(spots, records)
    IN  /\ run.pc = "upsert"
        /\ \/ /\ database = "unset"
              /\ run' = Abort(called, "upsert", "RuntimeError")
              /\ UNCHANGED spots
           \/ /\ database = "down"
              /\ run' = IF records = <<>> THEN [called EXCEPT !.pc = "write"]
                        ELSE Abort(called, "upsert", "OperationalError")
              /\ UNCHANGED spots
           \/ /\ database = "up"
              /\ run' = IF up.error THEN Abort(called, "upsert", "NotNullViolation")
                        ELSE [called EXCEPT !.pc = "write"]
              /\ spots' = up.table
        /\ UNCHANGED <<favorites, last, reqs, snapshot, norm, session>>

\* write_output(deduped, output_path): makedirs and open may fail before the
\* file is touched; open(path, "w") truncates, so a failure of json.dump
\* leaves an incomplete file
WriteOutput(io) ==
    LET records == write_argument(run)
        called == [run EXCEPT !.write_arg = Some(records)]
    IN  /\ run.pc = "write"
        /\ \/ /\ io = "ok"
              /\ run' = [called EXCEPT !.pc = "done"]
              /\ snapshot' = Some([complete |-> TRUE, payload |-> records])
           \/ /\ io = "open_fails"
              /\ run' = Abort(called, "write", "OSError")
              /\ UNCHANGED snapshot
           \/ /\ io = "dump_fails"
              /\ run' = Abort(called, "write", "OSError")
              /\ snapshot' = Some([complete |-> FALSE, payload |-> <<>>])
        /\ UNCHANGED <<spots, favorites, last, reqs, norm, session>>

OldSnapshot == Some([complete |-> TRUE, payload |-> <<>>])

InitIngest ==
    /\ spots \in {EmptyTable, upsert_rows(EmptyTable, <<ExtraRecords[1]>>).table}
    /\ favorites = EmptyBag
    /\ last = Idle
    /\ reqs = <<>>
    /\ run = IdleRun
    /\ snapshot \in {None, OldSnapshot}
    /\ session = NoSession
    /\ norm = [pc |-> "idle"]

NextIngest ==
    \/ \E sources \in BoundedSeq(Sources, NumSources) : StartRun(sources)
    \/ FetchSource
    \/ Dedupe
    \/ \E database \in {"unset", "down", "up"} : UpsertToDb(database)
    \/ \E io \in {"ok", "open_fails", "dump_fails"} : WriteOutput(io)

SpecIngest == InitIngest /\ [][NextIngest]_vars

----------------------------------------------------------------------------
(* Claims about the ingestion run                                          *)

RunEnded == run.pc \in {"done", "aborted"}
AbortedAt(at) == run.pc = "aborted" /\ run.at = at
Deduped == run.pc \in {"upsert", "write", "done"} \/ AbortedAt("upsert") \/ AbortedAt("write")

\* C6: a failure of one source's fetch is isolated: the run is not aborted
\* by it but goes on with the remaining sources, and the records of the
\* sources that did not fail are still normalized, deduped, persisted and
\* snapshotted.
C6_FetchFailureIsolated ==
    /\ ~AbortedAt("fetch")
    /\ \A k \in 1..Len(run.sources) :
          (run.sources[k].raises /\ run.pc \in {"upsert", "write", "done"}) =>
              \A j \in 1..Len(run.sources) :
                  (~run.sources[j].raises /\ run.sources[j].raws # <<>>) =>
                      \E n \in 1..Len(run.normalized) :
                          run.normalized[n].source = PyStr(run.sources[j].name)

\* C7 as stated: once the run reaches Persist + Snapshot, upsert_to_db and
\* write_output both receive the identical deduped sequence, a persistence
\* failure does not keep the snapshot writer from receiving it, and a
\* snapshot-write failure does not undo the persistence outcome.
C7_IndependentFailures ==
    /\ run.upsert_arg # None => run.upsert_arg = Some(run.deduped)
    /\ (RunEnded /\ run.upsert_arg # None) => run.write_arg = Some(run.deduped)
    /\ AbortedAt("write") => spots = upsert_rows(run.spotsBefore, run.deduped).table

\* C7, amended: upsert_to_db receives the deduped sequence; write_output is
\* called only after upsert_to_db has returned, and then receives the
\* identical sequence; a persistence failure ends the run with storage and
\* the snapshot as they were and write_output never called; a snapshot-write
\* failure ends the run with the upsert committed.
C7_PersistThenSnapshot ==
    /\ run.upsert_arg # None => run.upsert_arg = Some(run.deduped)
    /\ run.write_arg # None =>
          /\ run.write_arg = run.upsert_arg
          /\ spots = upsert_rows(run.spotsBefore, run.deduped).table
    /\ AbortedAt("upsert") =>
          /\ run.write_arg = None
          /\ spots = run.spotsBefore
          /\ snapshot = run.snapshotBefore
    /\ AbortedAt("write") =>
          /\ run.upsert_arg = Some(run.deduped)
          /\ ~upsert_rows(run.spotsBefore, run.deduped).error
          /\ spots = upsert_rows(run.spotsBefore, run.deduped).table
    /\ run.pc = "done" => snapshot = Some([complete |-> TRUE, payload |-> run.deduped])

\* a persistence failure on the second record of a batch whose first record
\* the table accepts, with an earlier snapshot in place
C7_Witness ==
    /\ AbortedAt("upsert")
    /\ run.error = "NotNullViolation"
    /\ Len(run.deduped) = 2
    /\ ~not_null_violation(run.deduped[1])
    /\ run.snapshotBefore # None

\* the key of the specification: (trim(name).lower(), trim(address).lower())
KeyOf(record) ==
    <<str_lower(str_strip(record.name.v)), str_lower(str_strip(record.address.v))>>

FirstWith(records, key) ==
    SetMin({i \in 1..Len(records) : KeyOf(records[i]) = key})

\* C9: dedupe, applied once to the combined normalized records of all
\* sources, returns a subsequence of its input in first-seen order in which
\* no two records share the key, every key of the input is a key of the
\* output, and the record kept for a key is the first input record with it.
C9_DedupeFirstSeen ==
    Deduped =>
        LET inp == run.normalized
            out == run.deduped
        IN  /\ \A a, b \in 1..Len(out) : KeyOf(out[a]) = KeyOf(out[b]) => a = b
            /\ {KeyOf(inp[i]) : i \in 1..Len(inp)} = {KeyOf(out[a]) : a \in 1..Len(out)}
            /\ \A a \in 1..Len(out) : out[a] = inp[FirstWith(inp, KeyOf(out[a]))]
            /\ \A a, b \in 1..Len(out) :
                  a < b => FirstWith(inp, KeyOf(out[a])) < FirstWith(inp, KeyOf(out[b]))

\* "sample park " from the feed came before "Sample Park" of the local
\* sample, so the feed's record is the one kept
C9_Witness ==
    /\ Deduped
    /\ Len(run.normalized) = 2
    /\ Len(run.deduped) = 1
    /\ run.normalized[1].name # run.normalized[2].name
    /\ run.deduped[1].source = PyStr(Official)
    /\ run.normalized[2].source = PyStr(LocalSample)

----------------------------------------------------------------------------
(* Paginated search requests                                               *)

\* the route admits limit in 1..100 and offset >= 0
Limits == 1..MaxLimit \cup {DefaultLimit}
Offsets == 0..MaxOffset

PageCriteria ==
    { [ NoCriteria EXCEPT !.tags = t, !.cost_range = k, !.limit = l, !.offset = o ] :
      t \in {None, Some({<<"O","u","t","d","o","o","r">>})},
      k \in {None, Some(FREE)}, l \in Limits, o \in Offsets }

NextPage ==
    \/ NoRequest /\ \E c \in PageCriteria : ListSpots(c)
    \/ NoRequest /\ \E records \in BoundedSeq(Extras, MaxBatch) : Upsert(records)
    \/ NoRequest /\ \E s \in SpotIds : DeleteSpot(s)
    \/ Return

SpecPage == Init /\ [][NextPage]_vars

\* C11: pagination is applied last, as the slice [offset, offset+limit) of
\* the filtered sequence in scan order: the result has at most limit
\* elements, is the contiguous run of the matched sequence that starts at
\* position offset, is the first matched element for limit=1, offset=0, and
\* is the empty sequence, not an error, when offset >= the matched size.
C11_PaginationLast ==
    last.op = "list_spots" =>
        LET c == last.crit
            m == last.matched
            items == last.items
            rest == IF c.offset >= Len(m) THEN 0 ELSE Len(m) - c.offset
        IN  /\ last.result = "ok"
            /\ m = list_matched(last.scan, c)
            /\ m = SelectSeq(last.scan, LAMBDA s : s \in SeqToSet(m))
            /\ Len(items) <= c.limit
            /\ Len(items) = IF c.limit <= rest THEN c.limit ELSE rest
            /\ \A i \in 1..Len(items) : items[i] = to_spot(m[c.offset + i])
            /\ (c.limit = 1 /\ c.offset = 0 /\ m # <<>>) => items = <<to_spot(m[1])>>
            /\ c.offset >= Len(m) => items = <<>>

\* a page cut out of the middle: more matches before it and after it
C11_Witness ==
    /\ last.op = "list_spots"
    /\ Len(last.matched) = 3
    /\ last.crit.offset = 1
    /\ last.crit.limit = 1
    /\ last.items = <<to_spot(last.matched[2])>>

----------------------------------------------------------------------------
(* session_scope around the bodies of the storage operations (db.py)       *)

ScopedOps == {"seed_spots", "get_spot", "add_favorite", "remove_favorite"}

\* what the body of "with session_scope() as session:" does when nothing
\* raises: how it leaves (a return inside the block, or falling off its
\* end) and what it has put into the transaction
body_of(op, u, s, tbl, fav) ==
    CASE op = "seed_spots" ->
            IF seed_needed(tbl) THEN [exit |-> "fallthrough", pending |-> "seed"]
            ELSE [exit |-> "return", pending |-> "none"]
      [] op = "get_spot" -> [exit |-> "return", pending |-> "none"]
      [] op = "add_favorite" ->
            IF session_get(tbl, s) = None THEN [exit |-> "return", pending |-> "none"]
            ELSE IF existing_favorite(fav, u, s) = None
            THEN [exit |-> "fallthrough", pending |-> "insert_favorite"]
            ELSE [exit |-> "fallthrough", pending |-> "none"]
      [] op = "remove_favorite" -> [exit |-> "fallthrough", pending |-> "delete_favorite"]

\* faulty variant of on_body_exit: a return inside the block skips the commit
on_body_exit_return_skips_commit(exit) ==
    CASE exit = "fallthrough" -> "commit"
      [] exit = "return" -> "finally"
      [] exit = "exception" -> "except"
      [] exit = "base_exception" -> "finally"

\* where the generator goes on when the block is left: after the yield for
\* a normal exit (a return included), into "except Exception" for an
\* Exception, straight to "finally" for any other BaseException
on_body_exit(exit) ==
    CASE exit \in {"fallthrough", "return"} -> "commit"
      [] exit = "exception" -> "except"
      [] exit = "base_exception" -> "finally"

\* the transaction of the session written to the tables
commit_pending(pending, u, s, tbl, fav) ==
    CASE pending = "none" -> [error |-> FALSE, spots |-> tbl, favorites |-> fav]
      [] pending = "seed" ->
            LET ins == insert_spots(tbl, SeedRows)
            IN  [error |-> ins.error, spots |-> ins.table, favorites |-> fav]
      [] pending = "insert_favorite" ->
            LET ins == insert_favorite(fav, u, s)
            IN  [error |-> ins.error, spots |-> tbl, favorites |-> ins.table]
      [] pending = "delete_favorite" ->
            [error |-> FALSE, spots |-> tbl, favorites |-> delete_favorite(fav, u, s)]

\* session = Session(bind=engine); yield session
Enter(op, u, s) ==
    /\ session.pc = "none"
    /\ session' = [NoSession EXCEPT !.pc = "body", !.op = op, !.user = u, !.spot = s,
                                    !.open = TRUE, !.spotsBefore = spots,
                                    !.favBefore = favorites]
    /\ UNCHANGED <<spots, favorites, last, reqs, run, snapshot, norm>>

\* the block runs to its end or to a return, or a statement of it raises
Body(how) ==
    LET ran == body_of(session.op, session.user, session.spot, spots, favorites)
        exit == IF how = "runs" THEN ran.exit ELSE how
    IN  /\ session.pc = "body"
        /\ session' = [session EXCEPT !.pc = on_body_exit(exit), !.body = exit,
                                      !.pending = ran.pending]
        /\ UNCHANGED <<spots, favorites, last, reqs, run, snapshot, norm>>

\* session.commit(): writes the transaction, or raises
SessionCommit(db) ==
    LET done == commit_pending(session.pending, session.user, session.spot,
                               spots, favorites)
        fails == db = "fails" \/ done.error
    IN  /\ session.pc = "commit"
        /\ session' = [session EXCEPT !.pc = IF fails THEN "except" ELSE "finally",
                                      !.calls = Append(@, "commit"),
                                      !.committed = ~fails,
                                      !.commitRaised = fails,
                                      !.pending = IF fails THEN @ ELSE "none"]
        /\ spots' = IF fails THEN spots ELSE done.spots
        /\ favorites' = IF fails THEN favorites ELSE done.favorites
        /\ UNCHANGED <<last, reqs, run, snapshot, norm>>

\* except Exception: session.rollback(); raise
SessionRollback ==
    /\ session.pc = "except"
    /\ session' = [session EXCEPT !.pc = "finally", !.calls = Append(@, "rollback"),
                                  !.pending = "none"]
    /\ UNCHANGED <<spots, favorites, last, reqs, run, snapshot, norm>>

\* finally: session.close(), which ends a transaction still in progress
\* without writing it; then the block's result or the exception goes on
SessionClose ==
    /\ session.pc = "finally"
    /\ session' = [session EXCEPT
                      !.pc = "exited", !.calls = Append(@, "close"), !.open = FALSE,
                      !.pending = "none",
                      !.outcome = IF session.body \in {"exception", "base_exception"}
                                     \/ session.commitRaised
                                  THEN "raised" ELSE "returned"]
    /\ UNCHANGED <<spots, favorites, last, reqs, run, snapshot, norm>>

\* the caller goes on
Leave ==
    /\ session.pc = "exited"
    /\ session' = NoSession
    /\ UNCHANGED <<spots, favorites, last, reqs, run, snapshot, norm>>

NextScope ==
    \/ \E op \in ScopedOps, u \in Users, s \in SpotIds \cup {NonexistentId} : Enter(op, u, s)
    \/ \E how \in {"runs", "exception", "base_exception"} : Body(how)
    \/ \E db \in {"ok", "fails"} : SessionCommit(db)
    \/ SessionRollback
    \/ SessionClose
    \/ Leave

SpecScope == Init /\ [][NextScope]_vars

Exited == session.pc = "exited"
BodyCompleted == session.body \in {"fallthrough", "return"}
HasCalled(call) == \E i \in 1..Len(session.calls) : session.calls[i] = call
TablesAsBefore == spots = session.spotsBefore /\ favorites = session.favBefore

\* C12: session_scope commits the session exactly when the body completes
\* without an exception (a return inside the body included), rolls back and
\* re-raises when the body or the commit raises, and closes the session on
\* every exit path; a session is never both committed and rolled back, and
\* never left open.
C12_SessionScope ==
    /\ session.open <=> session.pc \in {"body", "commit", "except", "finally"}
    /\ ~(session.committed /\ HasCalled("rollback"))
    /\ Exited =>
          /\ session.calls[Len(session.calls)] = "close"
          /\ Cardinality({i \in 1..Len(session.calls) : session.calls[i] = "close"}) = 1
          /\ session.pending = "none"
          /\ HasCalled("commit") <=> BodyCompleted
          /\ session.committed <=> (BodyCompleted /\ ~session.commitRaised)
          /\ (BodyCompleted /\ ~session.commitRaised) =>
                /\ session.calls = <<"commit", "close">>
                /\ session.outcome = "returned"
          /\ (session.body = "exception" \/ session.commitRaised) =>
                /\ HasCalled("rollback")
                /\ session.outcome = "raised"
                /\ TablesAsBefore
          /\ session.body = "base_exception" =>
                /\ session.outcome = "raised"
                /\ TablesAsBefore

\* add_favorite left its block by "return False" and the session committed
C12_Witness ==
    /\ Exited
    /\ session.op = "add_favorite"
    /\ session.body = "return"
    /\ session.calls = <<"commit", "close">>
    /\ session.spotsBefore # EmptyTable

============================================================================
